---- MODULE Spec2Model ----
(***************************************************************************)
(* CompressQueue (internal/pcsfunctions/pcscompress/queue.go): a serial    *)
(* queue of compression tasks with an atomic status word driven by         *)
(* Execute / Stop / Pause / Resume, lifecycle hooks, and result queries.   *)
(*                                                                         *)
(* Execute() is modelled one atomic load/store of cq.status per step, so   *)
(* that Stop/Pause/Resume issued by other threads interleave with the run  *)
(* loop exactly where the Go memory model lets them.                       *)
(*                                                                         *)
(* AddTask is modelled for a non-empty targetZipPath (every caller in the  *)
(* repository passes one) and only while no run loop is active, which is   *)
(* how RunCompressOnly uses the queue (all AddTask calls precede Execute). *)
(* The driver names the archive after the directory's base name, so the    *)
(* targets it hands to AddTask repeat whenever base names repeat: the k-th *)
(* directory enqueued here gets target ((k-1) mod MaxPaths) + 1.           *)
(*                                                                         *)
(* Spec is the compress-only mode (the queue); SpecUnit is the             *)
(* compress-and-upload mode; SpecTask is one CompressTask.Execute().       *)
(***************************************************************************)
EXTENDS Integers, Sequences, FiniteSets, TLC

\* ---------------------------------------------------------------- bounds
MaxItems == 5       \* longest queue explored
MaxPaths == 2       \* distinct base names (hence target archive paths) of the directories
MaxProgress == 1    \* progress callbacks one task may emit
NumThreads == 2     \* threads that may call Execute()
MaxUnits == 2       \* most directories one compress-and-upload run is given
MaxRetry == 1       \* largest retry budget (opt.MaxRetry) explored
MaxLoad == 2        \* largest opt.Load explored
MaxNodes == 3       \* most entries below a source directory
MaxFree == 2        \* most free bytes the target's file system reports
MaxAttempts == 2    \* most calls of Execute() for one source directory
MaxFairItems == 2   \* longest queue explored under fair scheduling
NumFairThreads == 1 \* threads that may call Execute() there
MaxCleanItems == 3  \* longest queue whose archives on disk are followed

Threads == 1..NumThreads

\* ------------------------------------------------------- QueueStatus iota
QueueStatusIdle == 0
QueueStatusRunning == 1
QueueStatusPaused == 2
QueueStatusStopped == 3

VARIABLES
    items,        \* cq.items: sequence of CompressQueueItem
    status,       \* cq.status (atomic int32)
    pc,           \* per thread: position inside Execute(), "idle" = not in it
    idx,          \* per thread: loop variable i of `for i := range cq.items`
    rejected,     \* the latest Execute() call failed its CAS and returned at once
    epoch,        \* "new": Execute() never entered; "first": in or after the first run;
                  \* "again": a later run has begun
    ctl,          \* the Stop() calls since the run began: <<"none", 0>> (none),
                  \* <<"hook", k>> (the OnTaskComplete hook of item k called Stop()
                  \* first, and no other thread has called Stop() or Pause() since),
                  \* <<"stop", 0>> (any other history with a Stop() in it) or
                  \* <<"stop", 1>> (the same, and the loop has since gone through the
                  \* top of an iteration and has not yet started that iteration's item)
    pauseWait,    \* "no": the loop is not in its paused polling loop; "waiting": it is;
                  \* "stopped": Stop() was called while it waited with the status
                  \* Paused, and neither Pause() nor Resume() has followed
    processed,    \* progress callbacks emitted by the task now executing
    startCnt,     \* OnTaskStart calls per item in the current run
    completeCnt,  \* OnTaskComplete calls per item in the current run
    queueCnt,     \* OnQueueComplete calls in the current run
    lastHook      \* the hook called last in the current run: <<kind, item>>

queueVars == <<items, status, pc, idx, rejected, epoch, ctl, pauseWait, processed,
               startCnt, completeCnt, queueCnt, lastHook>>

hookVars == <<startCnt, completeCnt, queueCnt, lastHook>>

\* State of the compress-and-upload mode (RunCompressUpload, the task
\* executor and its CompressUploadTaskUnits, the shared CompressStatistic).
VARIABLES
    dirs,           \* directoriesToCompress, over all localPaths: <<parent, base name>>
    opt,            \* CompressUploadOptions: DeleteAfterUpload, MaxRetry, Load
    units,          \* the units appended to the executor, in order
    upc,            \* per unit: where it is ("queued", inside Run(), "post", "success", "failed")
    retry,          \* per unit: taskInfo.Retry()
    compressResult, \* per unit: cutu.compressResult
    runResult,      \* per unit: the result Run() is building / has returned
    archive,        \* file system: does a file exist at this archive path
    stat,           \* the shared CompressStatistic: totalSize, compressedSize, fileCount
    statRuns,       \* per unit: invocations of Run() that finished their three Add* calls
    uploads,        \* per unit: calls of the upload engine
    rmErr           \* the latest os.Remove of an archive returned an error

unitVars == <<dirs, opt, units, upc, retry, compressResult, runResult, archive,
              stat, statRuns, uploads, rmErr>>

\* State of one CompressTask being executed.
VARIABLES
    tree,           \* the entries below the source directory
    sourceBase,     \* filepath.Base(ct.SourcePath)
    includeHidden,  \* ct.Options.IncludeHidden
    tpc,            \* where Execute() is: "ready", "count", "space", "create", "walk", "done"
    ct,             \* the task's counters: TotalFiles, TotalSize, ProcessedFiles, CompressedSize
    todo,           \* the nodes the archive walk has still to visit
    walked,         \* Execute()'s locals processedFiles, compressedSize
    ctResult,       \* the CompressResult being built / returned
    zipFile,        \* the file at ct.TargetZipPath
    sys,            \* the answer the operating system gave to the latest step
    attempt         \* calls of Execute() for this source directory so far

taskVars == <<tree, sourceBase, includeHidden, tpc, ct, todo, walked, ctResult, zipFile,
              sys, attempt>>

\* The files at the target paths of a compress-only queue.  They are followed
\* in the specification of CleanupFailedTasks() only; elsewhere the outcome of
\* a task is an input and the files stay out of the picture.
VARIABLES
    zips            \* per target path: 0 (no file) or the item whose Execute()
                    \* wrote the file now at that path

fsVars == <<zips>>

vars == <<queueVars, unitVars, taskVars, fsVars>>

\* What the operations of each part leave alone.
notQueueVars == <<unitVars, taskVars, fsVars>>
notUnitVars == <<queueVars, taskVars, fsVars>>
notTaskVars == <<queueVars, unitVars, fsVars>>

\* ------------------------------------------------------------ data model
NilResult == [nil |-> TRUE, Success |-> FALSE, TargetZipPath |-> 0]

NewCompressTask(targetZipPath) == [TargetZipPath |-> targetZipPath]

\* CompressTask.Execute(): the result names the task's target; whether it
\* succeeds depends on the file system and is an input here.
TaskExecute(task, ok) ==
    [nil |-> FALSE, Success |-> ok, TargetZipPath |-> task.TargetZipPath]

NewItem(targetZipPath) ==
    [Task |-> NewCompressTask(targetZipPath), Result |-> NilResult, Status |-> "pending"]

ZeroCnt == [i \in 1..MaxItems |-> 0]
NoHook == <<"none", 0>>
NoCtl == <<"none", 0>>
StopCtl == <<"stop", 0>>
StopSeenCtl == <<"stop", 1>>

\* ctl after a Stop() from another thread, after a Pause(), after a Stop()
\* from the OnTaskComplete hook of item k, after the loop went through its
\* top, and after the item was started or the run is over.
CtlAfterStop(c) == IF c = StopSeenCtl THEN c ELSE StopCtl
CtlAfterPause(c) == IF c = NoCtl THEN c ELSE CtlAfterStop(c)
CtlAfterHookStop(c, k) ==
    IF c = NoCtl THEN <<"hook", k>>
    ELSE IF c[1] = "hook" THEN c
    ELSE CtlAfterStop(c)
CtlAfterTop(c) == IF c = StopCtl THEN StopSeenCtl ELSE c
CtlAfterStart(c) == IF c = StopSeenCtl THEN StopCtl ELSE c

\* No file at any target path.
NoZips == [p \in 1..MaxPaths |-> 0]

QueueInit ==
    /\ zips = NoZips
    /\ items = <<>>
    /\ status = QueueStatusIdle
    /\ pc = [t \in Threads |-> "idle"]
    /\ idx = [t \in Threads |-> 0]
    /\ rejected = FALSE
    /\ epoch = "new"
    /\ ctl = NoCtl
    /\ pauseWait = "no"
    /\ processed = 0
    /\ startCnt = ZeroCnt
    /\ completeCnt = ZeroCnt
    /\ queueCnt = 0
    /\ lastHook = NoHook

NoLoopActive == \A t \in Threads : pc[t] = "idle"

\* ---------------------------------------------------------------- AddTask
\* RunCompressOnly: zipPath of the k-th directory it enqueues.
ZipPathOf(k) == ((k - 1) % MaxPaths) + 1

AddTask(targetZipPath) ==
    /\ NoLoopActive
    /\ Len(items) < MaxItems
    /\ items' = Append(items, NewItem(targetZipPath))
    /\ UNCHANGED <<status, pc, idx, rejected, epoch, ctl, pauseWait, processed, hookVars>>
    /\ UNCHANGED notQueueVars

\* ------------------------------------------------------- Execute(): entry
\* Variant: a plain store of Running, no compare.
ExecuteCASNoCompare(s) == TRUE

\* atomic.CompareAndSwapInt32(&cq.status, Idle, Running): the compare.
ExecuteCAS(s) == s = QueueStatusIdle

\* The CAS succeeded: status is Running and the loop variable is at the
\* first item. The hook counters describe one run, so they restart here.
ExecuteEnter(t) ==
    /\ pc[t] = "idle"
    /\ ExecuteCAS(status)
    /\ status' = QueueStatusRunning
    /\ pc' = [pc EXCEPT ![t] = "top"]
    /\ idx' = [idx EXCEPT ![t] = 1]
    /\ rejected' = FALSE
    /\ epoch' = IF epoch = "new" THEN "first" ELSE "again"
    /\ ctl' = NoCtl
    /\ pauseWait' = "no"
    /\ processed' = 0
    /\ startCnt' = ZeroCnt
    /\ completeCnt' = ZeroCnt
    /\ queueCnt' = 0
    /\ lastHook' = NoHook
    /\ UNCHANGED items
    /\ UNCHANGED notQueueVars

\* The CAS failed: Execute() returns at once.
ExecuteReject(t) ==
    /\ pc[t] = "idle"
    /\ ~ExecuteCAS(status)
    /\ rejected' = TRUE
    /\ UNCHANGED <<items, status, pc, idx, epoch, ctl, pauseWait, processed, hookVars>>
    /\ UNCHANGED notQueueVars

\* -------------------------------------------------- Execute(): the run loop
\* Variant: the loop has no Stopped check before an item.
StoppedAtTopNoCheck(s) == FALSE

\* `if cq.GetStatus() == QueueStatusStopped { break }`
StoppedAtTop(s) == s = QueueStatusStopped

\* `for i := range cq.items` and the Stopped check before item i.
LoopTop(t) ==
    /\ pc[t] = "top"
    /\ pc' = [pc EXCEPT ![t] =
                IF idx[t] > Len(items) \/ StoppedAtTop(status)
                THEN "qcomplete" ELSE "pausechk"]
    /\ ctl' = IF idx[t] > Len(items) \/ StoppedAtTop(status) THEN ctl ELSE CtlAfterTop(ctl)
    /\ UNCHANGED <<items, status, idx, rejected, epoch, pauseWait, processed, hookVars>>
    /\ UNCHANGED notQueueVars

\* `for cq.GetStatus() == QueueStatusPaused {`
PauseCheck(t) ==
    /\ pc[t] = "pausechk"
    /\ pc' = [pc EXCEPT ![t] =
                IF status = QueueStatusPaused THEN "sleep" ELSE "start"]
    /\ pauseWait' = IF status = QueueStatusPaused /\ pauseWait = "no"
                    THEN "waiting" ELSE pauseWait
    /\ UNCHANGED <<items, status, idx, rejected, epoch, ctl, processed, hookVars>>
    /\ UNCHANGED notQueueVars

\* Variant: after the sleep the loop condition is not read again.
SleepPollNeverRechecks(t) ==
    /\ pc[t] = "sleep"
    /\ pc' = [pc EXCEPT ![t] =
                IF status = QueueStatusStopped THEN "defer" ELSE "sleep"]
    /\ UNCHANGED <<items, status, idx, rejected, epoch, ctl, pauseWait, processed, hookVars>>
    /\ UNCHANGED notQueueVars

\* `time.Sleep(...); if cq.GetStatus() == QueueStatusStopped { return }`
SleepPoll(t) ==
    /\ pc[t] = "sleep"
    /\ pc' = [pc EXCEPT ![t] =
                IF status = QueueStatusStopped THEN "defer" ELSE "pausechk"]
    /\ UNCHANGED <<items, status, idx, rejected, epoch, ctl, pauseWait, processed, hookVars>>
    /\ UNCHANGED notQueueVars

\* `item.Status = "running"` and OnTaskStart(item).
TaskStart(t) ==
    /\ pc[t] = "start"
    /\ items' = [items EXCEPT ![idx[t]].Status = "running"]
    /\ startCnt' = [startCnt EXCEPT ![idx[t]] = @ + 1]
    /\ lastHook' = <<"start", idx[t]>>
    /\ processed' = 0
    /\ pauseWait' = "no"
    /\ ctl' = CtlAfterStart(ctl)
    /\ pc' = [pc EXCEPT ![t] = "exec"]
    /\ UNCHANGED <<status, idx, rejected, epoch, completeCnt, queueCnt>>
    /\ UNCHANGED notQueueVars

\* item.Task.OnProgress, called by the task while it executes, forwards to
\* OnTaskProgress(item, ...).
TaskProgress(t) ==
    /\ pc[t] = "exec"
    /\ processed < MaxProgress
    /\ processed' = processed + 1
    /\ lastHook' = <<"progress", idx[t]>>
    /\ UNCHANGED <<items, status, pc, idx, rejected, epoch, ctl, pauseWait,
                   startCnt, completeCnt, queueCnt>>
    /\ UNCHANGED notQueueVars

\* Variant: the else branch is missing, a failed item keeps "running".
ItemStatusOfNoElse(result) == IF result.Success THEN "completed" ELSE "running"

\* `if result.Success { "completed" } else { "failed" }`
ItemStatusOf(result) == IF result.Success THEN "completed" ELSE "failed"

\* Variant: a failed task stops the whole queue.
TaskFinishAbortOnFail(t, ok) ==
    /\ pc[t] = "exec"
    /\ LET result == TaskExecute(items[idx[t]].Task, ok)
       IN items' = [items EXCEPT ![idx[t]].Result = result,
                                 ![idx[t]].Status = ItemStatusOf(result)]
    /\ status' = IF ok THEN status ELSE QueueStatusStopped
    /\ processed' = 0
    /\ pc' = [pc EXCEPT ![t] = "complete"]
    /\ UNCHANGED <<idx, rejected, epoch, ctl, pauseWait, hookVars>>
    /\ UNCHANGED notQueueVars

\* `result := item.Task.Execute(); item.Result = result; item.Status = ...`
TaskFinish(t, ok) ==
    /\ pc[t] = "exec"
    /\ LET result == TaskExecute(items[idx[t]].Task, ok)
       IN items' = [items EXCEPT ![idx[t]].Result = result,
                                 ![idx[t]].Status = ItemStatusOf(result)]
    /\ processed' = 0
    /\ pc' = [pc EXCEPT ![t] = "complete"]
    /\ UNCHANGED <<status, idx, rejected, epoch, ctl, pauseWait, hookVars>>
    /\ UNCHANGED notQueueVars

\* The same step with the file at the task's target path followed.  Execute()
\* fails before os.Create and leaves the path alone ("early"), or creates or
\* truncates the file and then fails in the walk, leaving a partial archive
\* ("late"), or succeeds ("ok").
TaskFinishOnDisk(t, outcome) ==
    /\ pc[t] = "exec"
    /\ LET task == items[idx[t]].Task
           result == TaskExecute(task, outcome = "ok")
       IN  /\ items' = [items EXCEPT ![idx[t]].Result = result,
                                     ![idx[t]].Status = ItemStatusOf(result)]
           /\ zips' = IF outcome = "early" THEN zips
                      ELSE [zips EXCEPT ![task.TargetZipPath] = idx[t]]
    /\ processed' = 0
    /\ pc' = [pc EXCEPT ![t] = "complete"]
    /\ UNCHANGED <<status, idx, rejected, epoch, ctl, pauseWait, hookVars>>
    /\ UNCHANGED <<unitVars, taskVars>>

\* Variant: OnTaskComplete is called for successful items only.
TaskCompleteOnSuccessOnly(t, stop) ==
    /\ pc[t] = "complete"
    /\ IF items[idx[t]].Result.Success
       THEN /\ completeCnt' = [completeCnt EXCEPT ![idx[t]] = @ + 1]
            /\ lastHook' = <<"complete", idx[t]>>
            /\ status' = IF stop THEN QueueStatusStopped ELSE status
            /\ ctl' = IF stop THEN CtlAfterHookStop(ctl, idx[t]) ELSE ctl
       ELSE UNCHANGED <<completeCnt, lastHook, status, ctl>>
    /\ idx' = [idx EXCEPT ![t] = @ + 1]
    /\ pc' = [pc EXCEPT ![t] = "top"]
    /\ UNCHANGED <<items, rejected, epoch, pauseWait, processed, startCnt, queueCnt>>
    /\ UNCHANGED notQueueVars

\* OnTaskComplete(item). The hook runs on the queue's own thread and is free
\* to call cq.Stop() (stop = TRUE), as the 5-item scenario of the
\* specification does. The loop then moves to the next index.
TaskComplete(t, stop) ==
    /\ pc[t] = "complete"
    /\ completeCnt' = [completeCnt EXCEPT ![idx[t]] = @ + 1]
    /\ lastHook' = <<"complete", idx[t]>>
    /\ status' = IF stop THEN QueueStatusStopped ELSE status
    /\ ctl' = IF stop THEN CtlAfterHookStop(ctl, idx[t]) ELSE ctl
    /\ idx' = [idx EXCEPT ![t] = @ + 1]
    /\ pc' = [pc EXCEPT ![t] = "top"]
    /\ UNCHANGED <<items, rejected, epoch, pauseWait, processed, startCnt, queueCnt>>
    /\ UNCHANGED notQueueVars

\* After the loop: OnQueueComplete(cq.items).
QueueComplete(t) ==
    /\ pc[t] = "qcomplete"
    /\ queueCnt' = queueCnt + 1
    /\ lastHook' = <<"queue", 0>>
    /\ pc' = [pc EXCEPT ![t] = "defer"]
    /\ UNCHANGED <<items, status, idx, rejected, epoch, ctl, pauseWait, processed,
                   startCnt, completeCnt>>
    /\ UNCHANGED notQueueVars

\* Variant: no deferred store, the status is left as the loop found it.
DeferredStoreMissing(s) == s

\* `defer atomic.StoreInt32(&cq.status, int32(QueueStatusIdle))`
DeferredStore(s) == QueueStatusIdle

\* The deferred store runs and Execute() returns.
ExecuteReturn(t) ==
    /\ pc[t] = "defer"
    /\ status' = DeferredStore(status)
    /\ pc' = [pc EXCEPT ![t] = "idle"]
    /\ idx' = [idx EXCEPT ![t] = 0]
    /\ pauseWait' = "no"
    /\ ctl' = CtlAfterStart(ctl)
    /\ UNCHANGED <<items, rejected, epoch, processed, hookVars>>
    /\ UNCHANGED notQueueVars

\* ------------------------------------------------- Stop / Pause / Resume
\* Called from any thread, at any time.
Stop ==
    /\ status' = QueueStatusStopped
    /\ ctl' = CtlAfterStop(ctl)
    /\ pauseWait' = IF pauseWait = "waiting" /\ status = QueueStatusPaused
                    THEN "stopped" ELSE pauseWait
    /\ UNCHANGED <<items, pc, idx, rejected, epoch, processed, hookVars>>
    /\ UNCHANGED notQueueVars

Pause ==
    /\ status' = QueueStatusPaused
    /\ ctl' = CtlAfterPause(ctl)
    /\ pauseWait' = IF pauseWait = "stopped" THEN "waiting" ELSE pauseWait
    /\ UNCHANGED <<items, pc, idx, rejected, epoch, processed, hookVars>>
    /\ UNCHANGED notQueueVars

\* atomic.CompareAndSwapInt32(&cq.status, Paused, Running)
Resume ==
    /\ status' = IF status = QueueStatusPaused THEN QueueStatusRunning ELSE status
    /\ pauseWait' = IF pauseWait = "stopped" THEN "waiting" ELSE pauseWait
    /\ UNCHANGED <<items, pc, idx, rejected, epoch, ctl, processed, hookVars>>
    /\ UNCHANGED notQueueVars

\* --------------------------------------------------------------- queries
\* GetResults(): a copy of cq.items.
GetResults == [i \in 1..Len(items) |-> items[i]]

\* GetCompletedZipPaths(): walk the items in order, keep the target path of
\* every result that is present and successful.
\* Variant: any item that has a result is kept.
KeepsPathAnyResult(item) == item.Result.nil = FALSE

\* `if item.Result != nil && item.Result.Success`
KeepsPath(item) == item.Result.nil = FALSE /\ item.Result.Success

RECURSIVE CompletedZipPathsFrom(_, _)
CompletedZipPathsFrom(its, i) ==
    IF i > Len(its) THEN <<>>
    ELSE IF KeepsPath(its[i])
         THEN <<its[i].Result.TargetZipPath>> \o CompletedZipPathsFrom(its, i + 1)
         ELSE CompletedZipPathsFrom(its, i + 1)

GetCompletedZipPaths == CompletedZipPathsFrom(items, 1)

\* ----------------------------------------------------- CleanupFailedTasks
\* `if item.Result != nil && !item.Result.Success`
LeftByFailure(item) == item.Result.nil = FALSE /\ ~item.Result.Success

\* os.Remove(item.Task.TargetZipPath) for every such item: whatever file is at
\* the path goes.
CleanupFailedTasks ==
    /\ zips' = [p \in 1..MaxPaths |->
                  IF \E i \in 1..Len(items) :
                        LeftByFailure(items[i]) /\ items[i].Task.TargetZipPath = p
                  THEN 0
                  ELSE zips[p]]
    /\ UNCHANGED queueVars
    /\ UNCHANGED <<unitVars, taskVars>>

\* ------------------------------------- CompressTask.Execute(): the data
\* Entry names: one hidden (it starts with "."), one not; "." sorts first.
Names == {".h", "a"}
HiddenNames == {".h"}

\* strings.HasPrefix(base, ".") && base != "." && base != ".."
IsHidden(base) == base \in HiddenNames

NameBefore(x, y) == x \in HiddenNames /\ y \notin HiddenNames

\* A tree is a set of nodes [path, dir]: path is the entry's path below the
\* source directory, a sequence of names; dir tells directories from regular
\* files.  The source directory itself is the node with the empty path.
RootNode == [path |-> <<>>, dir |-> TRUE]

IsPrefix(p, q) == Len(p) <= Len(q) /\ SubSeq(q, 1, Len(p)) = p

\* The trees that have one entry more than t: a file or a directory, under the
\* source directory or under a directory of t, where t has no entry yet.
Grow(t) ==
    { t \cup {[path |-> Append(x[1].path, x[2]), dir |-> x[3]]} :
        x \in { y \in {m \in t \cup {RootNode} : m.dir} \X Names \X BOOLEAN :
                   \A m \in t : m.path # Append(y[1].path, y[2]) } }

\* The trees with at most n entries below the source directory.
RECURSIVE Trees(_)
Trees(n) ==
    IF n = 0 THEN {{}}
    ELSE LET smaller == Trees(n - 1) IN smaller \cup UNION {Grow(t) : t \in smaller}

\* info.Size() of a regular file.
FileSize(node) == Len(node.path)

\* filepath.Walk visits a directory before its entries, entries in lexical order.
PathBefore(p, q) ==
    /\ p # q
    /\ \/ IsPrefix(p, q)
       \/ \E i \in 1..Len(p) :
             /\ i <= Len(q)
             /\ SubSeq(p, 1, i - 1) = SubSeq(q, 1, i - 1)
             /\ NameBefore(p[i], q[i])

RECURSIVE WalkOrder(_)
WalkOrder(nodes) ==
    IF nodes = {} THEN <<>>
    ELSE LET first == CHOOSE n \in nodes :
                         \A m \in nodes \ {n} : PathBefore(n.path, m.path)
         IN  <<first>> \o WalkOrder(nodes \ {first})

\* filepath.Base(path) of a visited node.
BaseOf(node, root) == IF node.path = <<>> THEN root ELSE node.path[Len(node.path)]

\* The walk callbacks' test for entries to leave out.
LeftOut(node, root, incl) == ~incl /\ IsHidden(BaseOf(node, root))

\* filepath.SkipDir: the rest of the walk without what lies below node.
SkipDir(rest, node) == SelectSeq(rest, LAMBDA m : ~IsPrefix(node.path, m.path))

\* countFiles: the walk that adds every regular file it keeps to the counters.
RECURSIVE CountWalk(_, _, _, _)
CountWalk(rest, root, incl, acc) ==
    IF rest = <<>> THEN acc
    ELSE LET node == Head(rest) IN
         IF LeftOut(node, root, incl)
         THEN CountWalk(IF node.dir THEN SkipDir(Tail(rest), node) ELSE Tail(rest),
                        root, incl, acc)
         ELSE IF node.dir
         THEN CountWalk(Tail(rest), root, incl, acc)
         ELSE CountWalk(Tail(rest), root, incl,
                        [TotalFiles |-> acc.TotalFiles + 1,
                         TotalSize |-> acc.TotalSize + FileSize(node)])

\* zipPath := filepath.Join(sourceBase, relPath), as its segments.
ZipEntryPath(node, root) == <<root>> \o node.path

\* Archive entries: [name, marker, bytes]; marker entries are those named
\* "<zipPath>/", bytes is what io.Copy wrote into the entry.
DirEntry(node, root) == [name |-> ZipEntryPath(node, root), marker |-> TRUE, bytes |-> 0]
FileEntry(node, root, copied) ==
    [name |-> ZipEntryPath(node, root), marker |-> FALSE, bytes |-> copied]

\* The file at TargetZipPath: none, or its entries.
NoFile == [exists |-> FALSE, entries |-> {}]
OldFile ==
    [exists |-> TRUE, entries |-> {[name |-> <<"old">>, marker |-> FALSE, bytes |-> 1]}]
EmptyZip == [exists |-> TRUE, entries |-> {}]

\* &CompressResult{SourcePath, TargetZipPath}
NewResult ==
    [Success |-> FALSE, Error |-> "nil", TotalFiles |-> 0, TotalSize |-> 0,
     CompressedSize |-> 0]

\* &CompressTask{SourcePath, TargetZipPath, Options}
NewTask == [TotalFiles |-> 0, TotalSize |-> 0, ProcessedFiles |-> 0, CompressedSize |-> 0]

NoWalk == [processedFiles |-> 0, compressedSize |-> 0]

\* No answer of the operating system to remember.
NoCall == <<"none">>

\* The compress task while the program is observed elsewhere.
TaskIdle ==
    /\ tree = {}
    /\ sourceBase = "a"
    /\ includeHidden = FALSE
    /\ tpc = "off"
    /\ ct = NewTask
    /\ todo = <<>>
    /\ walked = NoWalk
    /\ ctResult = NewResult
    /\ zipFile = NoFile
    /\ sys = NoCall
    /\ attempt = 0

\* Execute() returns with result.Error = err.
ReturnError(err) ==
    /\ ctResult' = [NewResult EXCEPT !.Error = err]
    /\ tpc' = "done"

\* ------------------------------------------- CompressTask.Execute(): steps
\* os.Stat(ct.SourcePath) and the IsDir test.
ExecuteStat(kind) ==
    /\ tpc = "ready"
    /\ sys' = <<"stat", kind>>
    /\ CASE kind = "missing" -> ReturnError("ErrSourceNotExist")
         [] kind = "noperm" -> ReturnError("ErrPermissionDenied")
         [] kind = "file" -> ReturnError("ErrSourceNotDirectory")
         [] kind = "dir" -> ctResult' = NewResult /\ tpc' = "count"
    /\ UNCHANGED <<tree, sourceBase, includeHidden, attempt, ct, todo, walked, zipFile>>
    /\ UNCHANGED notTaskVars

\* countFiles() and the test for an empty directory.
ExecuteCount(walkOk) ==
    /\ tpc = "count"
    /\ sys' = <<"walk", walkOk>>
    /\ IF ~walkOk
       THEN /\ ReturnError("count failed")
            /\ UNCHANGED ct
       ELSE LET n == CountWalk(<<RootNode>> \o WalkOrder(tree), sourceBase, includeHidden,
                               [TotalFiles |-> ct.TotalFiles, TotalSize |-> ct.TotalSize])
            IN  /\ ct' = [ct EXCEPT !.TotalFiles = n.TotalFiles, !.TotalSize = n.TotalSize]
                /\ IF n.TotalFiles = 0
                   THEN ReturnError("empty directory")
                   ELSE tpc' = "space" /\ UNCHANGED ctResult
    /\ UNCHANGED <<tree, sourceBase, includeHidden, attempt, todo, walked, zipFile>>
    /\ UNCHANGED notTaskVars

\* checkDiskSpace(): nil when Statfs fails, else TotalSize against the free space.
checkDiskSpaceFailsOnStatfs(totalSize, statfsOk, freeSpace) ==
    IF ~statfsOk \/ totalSize > freeSpace THEN "ErrDiskSpaceInsufficient" ELSE "nil"

checkDiskSpace(totalSize, statfsOk, freeSpace) ==
    IF ~statfsOk THEN "nil"
    ELSE IF totalSize > freeSpace THEN "ErrDiskSpaceInsufficient"
    ELSE "nil"

ExecuteSpace(statfsOk, freeSpace) ==
    /\ tpc = "space"
    /\ sys' = <<"statfs", statfsOk, freeSpace>>
    /\ LET err == checkDiskSpace(ct.TotalSize, statfsOk, freeSpace) IN
          IF err # "nil" THEN ReturnError(err)
          ELSE tpc' = "create" /\ UNCHANGED ctResult
    /\ UNCHANGED <<tree, sourceBase, includeHidden, attempt, ct, todo, walked, zipFile>>
    /\ UNCHANGED notTaskVars

\* os.Create(ct.TargetZipPath): the file is created, or truncated, empty.
ExecuteCreate(outcome) ==
    /\ tpc = "create"
    /\ sys' = <<"create", outcome>>
    /\ CASE outcome = "perm" ->
              ReturnError("ErrPermissionDenied") /\ UNCHANGED <<todo, zipFile>>
         [] outcome = "fail" ->
              ReturnError("ErrCreateZipFailed") /\ UNCHANGED <<todo, zipFile>>
         [] outcome = "ok" ->
              /\ zipFile' = EmptyZip
              /\ todo' = <<RootNode>> \o WalkOrder(tree)
              /\ tpc' = "walk"
              /\ UNCHANGED ctResult
    /\ walked' = NoWalk
    /\ UNCHANGED <<tree, sourceBase, includeHidden, attempt, ct>>
    /\ UNCHANGED notTaskVars

\* The archive with one more entry.
WithEntry(file, entry) == [file EXCEPT !.entries = @ \cup {entry}]

\* The walk callback on a directory it keeps: is a "<zipPath>/" entry written.
MarksDirectory(node) == TRUE

\* updateProgress(): the task's fields take the walk's counters.
updateProgress(task, nProcessed, nCompressed) ==
    [task EXCEPT !.ProcessedFiles = nProcessed, !.CompressedSize = nCompressed]

\* ct.OnProgress(processed, ct.TotalFiles, currentFile), as the step's record
\* of the call; a step without a call records NoProgressCall.
OnProgressCall(nProcessed, nTotal) == <<nProcessed, nTotal>>
NoProgressCall == <<>>

\* What the callback does with a regular file after os.Open and io.Copy:
\* a permission error of os.Open skips the file, any other error ends the
\* walk, no error lets the file count.
OpenOutcomeAbortsOnPermission(fault) ==
    IF fault = "none" THEN "copy" ELSE "abort"

OpenOutcome(fault) ==
    CASE fault = "perm" -> "skip"
      [] fault = "io" -> "abort"
      [] fault = "none" -> "copy"

\* One call of the archive walk's callback, on the next node of the walk.
\* fault is what opening and copying a regular file meets: "none", "perm" (a
\* permission error of os.Open) or "io" (any other error).
WalkStep(fault) ==
    /\ tpc = "walk"
    /\ todo # <<>>
    /\ LET node == Head(todo) IN
          IF LeftOut(node, sourceBase, includeHidden)
          THEN /\ fault = "none"
               /\ todo' = IF node.dir THEN SkipDir(Tail(todo), node) ELSE Tail(todo)
               /\ UNCHANGED <<tpc, ct, walked, ctResult, zipFile>>
          ELSE IF node.dir
          THEN /\ fault = "none"
               /\ zipFile' = IF MarksDirectory(node)
                             THEN WithEntry(zipFile, DirEntry(node, sourceBase))
                             ELSE zipFile
               /\ todo' = Tail(todo)
               /\ UNCHANGED <<tpc, ct, walked, ctResult>>
          ELSE CASE OpenOutcome(fault) = "skip" ->
                         /\ zipFile' = WithEntry(zipFile, FileEntry(node, sourceBase, 0))
                         /\ todo' = Tail(todo)
                         /\ UNCHANGED <<tpc, ct, walked, ctResult>>
                 [] OpenOutcome(fault) = "abort" ->
                         /\ zipFile' = WithEntry(zipFile, FileEntry(node, sourceBase, 0))
                         /\ ReturnError("ErrCompressFailed")
                         /\ todo' = <<>>
                         /\ UNCHANGED <<ct, walked>>
                 [] OpenOutcome(fault) = "copy" ->
                         LET w == [processedFiles |-> walked.processedFiles + 1,
                                   compressedSize |-> walked.compressedSize + FileSize(node)]
                         IN  /\ zipFile' = WithEntry(zipFile,
                                              FileEntry(node, sourceBase, FileSize(node)))
                             /\ walked' = w
                             /\ ct' = updateProgress(ct, w.processedFiles, w.compressedSize)
                             /\ todo' = Tail(todo)
                             /\ UNCHANGED <<tpc, ctResult>>
    /\ sys' = <<"open", fault,
                IF ct' # ct \/ walked' # walked
                THEN OnProgressCall(walked'.processedFiles, ct'.TotalFiles)
                ELSE NoProgressCall>>
    /\ UNCHANGED <<tree, sourceBase, includeHidden, attempt>>
    /\ UNCHANGED notTaskVars

\* The walk is over without an error: the successful result.
ExecuteFinish ==
    /\ tpc = "walk"
    /\ todo = <<>>
    /\ ctResult' = [Success |-> TRUE, Error |-> "nil", TotalFiles |-> ct.TotalFiles,
                    TotalSize |-> ct.TotalSize, CompressedSize |-> walked.compressedSize]
    /\ tpc' = "done"
    /\ sys' = NoCall
    /\ UNCHANGED <<tree, sourceBase, includeHidden, attempt, ct, todo, walked, zipFile>>
    /\ UNCHANGED notTaskVars

\* ------------------------------------------- compress-and-upload: the data
\* The directories a run can be given: <<parent directory, base name>>.
\* <<1, 1>> and <<2, 1>> are same-named directories under two parents.
Dirs == {<<1, 1>>, <<2, 1>>, <<1, 2>>}

\* GenerateSimpleZipName: filepath.Base(absPath) + ".zip", relative to the
\* working directory; the parent directory is no part of the name.
GenerateSimpleZipName(dirPath) == dirPath[2]

ZipPaths == {GenerateSimpleZipName(d) : d \in Dirs}

\* What the walk of a directory finds (the trees do not change during a run):
\* number of regular files, their total size, and the bytes written to the
\* archive (one byte belongs to a file the walk skips as unreadable).
TotalFilesOf(dirPath) == dirPath[1]
TotalSizeOf(dirPath) == 2 * dirPath[1] + dirPath[2]
CompressedSizeOf(dirPath) == TotalSizeOf(dirPath) - 1

\* RunCompressUpload, the loop over the directories: one unit per directory,
\* its archive named by GenerateSimpleZipName.
NewUnit(dirPath) ==
    [SourcePath |-> dirPath, TargetZipPath |-> GenerateSimpleZipName(dirPath)]

AppendUnits(ds) == [k \in 1..Len(ds) |-> NewUnit(ds[k])]

UnitIdx == 1..Len(units)
AllUnits == 1..MaxUnits

\* executor.SetParallel(min(taskCount, opt.Load))
Parallel == IF Len(units) < opt.Load THEN Len(units) ELSE opt.Load

\* &taskframework.TaskUnitRunResult{}
EmptyRunResult ==
    [Succeed |-> FALSE, NeedRetry |-> FALSE, Err |-> "nil", ResultMessage |-> ""]

\* cutu.compressResult before the first Run()
NoCompressResult ==
    [Success |-> FALSE, Error |-> "nil", TotalFiles |-> 0, TotalSize |-> 0,
     CompressedSize |-> 0]

\* What task.Execute() returns for the unit's directory.  outcome is "ok",
\* "early" (a pre-flight failure: no archive file is created) or "late" (the
\* walk failed after os.Create).
CompressOutcomes == {"ok", "early", "late"}

UnitTaskExecute(dirPath, outcome) ==
    IF outcome = "ok"
    THEN [Success |-> TRUE, Error |-> "nil", TotalFiles |-> TotalFilesOf(dirPath),
          TotalSize |-> TotalSizeOf(dirPath),
          CompressedSize |-> CompressedSizeOf(dirPath)]
    ELSE [Success |-> FALSE, Error |-> "compress", TotalFiles |-> 0, TotalSize |-> 0,
          CompressedSize |-> 0]

\* The verdicts the upload engine can hand back through cutu.upload(); a nil
\* upload result is the record with nil = TRUE.
UploadVerdicts ==
    { [nil |-> FALSE, Succeed |-> TRUE, NeedRetry |-> FALSE, Err |-> "nil",
       ResultMessage |-> ""],
      [nil |-> FALSE, Succeed |-> FALSE, NeedRetry |-> TRUE, Err |-> "upload",
       ResultMessage |-> "upload"],
      [nil |-> FALSE, Succeed |-> FALSE, NeedRetry |-> FALSE, Err |-> "upload",
       ResultMessage |-> "upload"],
      [nil |-> FALSE, Succeed |-> FALSE, NeedRetry |-> FALSE, Err |-> "nil",
       ResultMessage |-> "upload"],
      [nil |-> TRUE, Succeed |-> FALSE, NeedRetry |-> FALSE, Err |-> "nil",
       ResultMessage |-> ""] }

ZeroStat == [totalSize |-> 0, compressedSize |-> 0, fileCount |-> 0]

\* The compress-and-upload state while the program runs in compress-only mode.
UnitIdle ==
    /\ dirs = <<>>
    /\ opt = [DeleteAfterUpload |-> FALSE, MaxRetry |-> 0, Load |-> 1]
    /\ units = <<>>
    /\ upc = <<>>
    /\ retry = <<>>
    /\ compressResult = <<>>
    /\ runResult = <<>>
    /\ archive = [p \in ZipPaths |-> FALSE]
    /\ stat = ZeroStat
    /\ statRuns = <<>>
    /\ uploads = <<>>
    /\ rmErr = FALSE

\* The order in which directories are listed.
DirBefore(d, e) == d[1] < e[1] \/ (d[1] = e[1] /\ d[2] < e[2])

\* The lists of directories a run is given: distinct directories, in order.
DirLists ==
    { ds \in UNION {[1..n -> Dirs] : n \in 1..MaxUnits} :
        \A i \in 1..Len(ds), j \in 1..Len(ds) : i < j => DirBefore(ds[i], ds[j]) }

\* The runs explored: one directory with every retry budget, or several
\* directories whose units are never retried; opt.Load is at most the number
\* of units, a larger one giving the same run.
RunConfigs ==
    { c \in [ds : DirLists, MaxRetry : 0..MaxRetry, Load : 1..MaxLoad,
             DeleteAfterUpload : BOOLEAN] :
        /\ Len(c.ds) > 1 => c.MaxRetry = 0
        /\ c.Load <= Len(c.ds) }

\* RunCompressUpload up to executor.Execute(): the units are appended, the
\* statistic is fresh, no archive exists yet.
InitUnit ==
    /\ QueueInit
    /\ TaskIdle
    /\ \E c \in RunConfigs :
          /\ dirs = c.ds
          /\ opt = [DeleteAfterUpload |-> c.DeleteAfterUpload, MaxRetry |-> c.MaxRetry,
                    Load |-> c.Load]
          /\ units = AppendUnits(c.ds)
          /\ upc = [k \in 1..Len(c.ds) |-> "queued"]
          /\ retry = [k \in 1..Len(c.ds) |-> 0]
          /\ compressResult = [k \in 1..Len(c.ds) |-> NoCompressResult]
          /\ runResult = [k \in 1..Len(c.ds) |-> EmptyRunResult]
          /\ statRuns = [k \in 1..Len(c.ds) |-> 0]
          /\ uploads = [k \in 1..Len(c.ds) |-> 0]
    /\ archive = [p \in ZipPaths |-> FALSE]
    /\ stat = ZeroStat
    /\ rmErr = FALSE

InRun(u) == upc[u] \in {"compress", "add1", "add2", "add3", "upload", "remove", "post"}

\* --------------------------------------------- the task executor (workers)
\* A free worker takes a queued unit and calls its Run().
ExecutorStart(u) ==
    /\ u \in UnitIdx
    /\ upc[u] = "queued"
    /\ Cardinality({v \in UnitIdx : InRun(v)}) < Parallel
    /\ upc' = [upc EXCEPT ![u] = "compress"]
    /\ runResult' = [runResult EXCEPT ![u] = EmptyRunResult]
    /\ UNCHANGED <<dirs, opt, units, retry, compressResult, archive, stat, statRuns,
                   uploads, rmErr>>
    /\ UNCHANGED notUnitVars

\* What the executor does with the result Run() returned.
ExecutorVerdict(result, retried, maxRetry) ==
    IF result.Succeed THEN "success"
    ELSE IF result.NeedRetry /\ retried < maxRetry THEN "retry"
    ELSE "failed"

\* ------------------------------------------ CompressUploadTaskUnit.Run()
\* Run(), compression failed: the result handed back.
CompressFailedResultRetries(cr) ==
    [Succeed |-> FALSE, NeedRetry |-> TRUE, Err |-> cr.Error,
     ResultMessage |-> "compress failed"]

CompressFailedResult(cr) ==
    [Succeed |-> FALSE, NeedRetry |-> FALSE, Err |-> cr.Error,
     ResultMessage |-> "compress failed"]

\* Run(), first half: a fresh CompressTask is executed; on failure Run()
\* returns at once.  The archive file exists once os.Create has run.
RunCompress(u, outcome) ==
    /\ u \in UnitIdx
    /\ upc[u] = "compress"
    /\ LET cr == UnitTaskExecute(units[u].SourcePath, outcome) IN
          /\ compressResult' = [compressResult EXCEPT ![u] = cr]
          /\ archive' = IF outcome = "early" THEN archive
                        ELSE [archive EXCEPT ![units[u].TargetZipPath] = TRUE]
          /\ IF cr.Success
             THEN /\ upc' = [upc EXCEPT ![u] = "add1"]
                  /\ UNCHANGED runResult
             ELSE /\ upc' = [upc EXCEPT ![u] = "post"]
                  /\ runResult' = [runResult EXCEPT ![u] = CompressFailedResult(cr)]
    /\ UNCHANGED <<dirs, opt, units, retry, stat, statRuns, uploads, rmErr>>
    /\ UNCHANGED notUnitVars

\* atomic.AddInt64(&field, delta)
AtomicStoreInt64(old, delta) == delta

AtomicAddInt64(old, delta) == old + delta

\* CompressStatistic.AddTotalSize / AddCompressedSize / AddFileCount
AddTotalSize(s, size) == [s EXCEPT !.totalSize = AtomicAddInt64(s.totalSize, size)]
AddCompressedSize(s, size) ==
    [s EXCEPT !.compressedSize = AtomicAddInt64(s.compressedSize, size)]
AddFileCount(s, count) == [s EXCEPT !.fileCount = AtomicAddInt64(s.fileCount, count)]

\* Run(), the three statistic updates, each one atomic on its own.
RunAddTotalSize(u) ==
    /\ u \in UnitIdx
    /\ upc[u] = "add1"
    /\ stat' = AddTotalSize(stat, compressResult[u].TotalSize)
    /\ upc' = [upc EXCEPT ![u] = "add2"]
    /\ UNCHANGED <<dirs, opt, units, retry, compressResult, runResult, archive,
                   statRuns, uploads, rmErr>>
    /\ UNCHANGED notUnitVars

RunAddCompressedSize(u) ==
    /\ u \in UnitIdx
    /\ upc[u] = "add2"
    /\ stat' = AddCompressedSize(stat, compressResult[u].CompressedSize)
    /\ upc' = [upc EXCEPT ![u] = "add3"]
    /\ UNCHANGED <<dirs, opt, units, retry, compressResult, runResult, archive,
                   statRuns, uploads, rmErr>>
    /\ UNCHANGED notUnitVars

RunAddFileCount(u) ==
    /\ u \in UnitIdx
    /\ upc[u] = "add3"
    /\ stat' = AddFileCount(stat, compressResult[u].TotalFiles)
    /\ statRuns' = [statRuns EXCEPT ![u] = @ + 1]
    /\ upc' = [upc EXCEPT ![u] = "upload"]
    /\ UNCHANGED <<dirs, opt, units, retry, compressResult, runResult, archive,
                   uploads, rmErr>>
    /\ UNCHANGED notUnitVars

\* Run(): the result after cutu.upload() returned uploadResult.
ResultAfterUpload(result, uploadResult) ==
    IF uploadResult.nil THEN result
    ELSE [Succeed |-> uploadResult.Succeed, NeedRetry |-> uploadResult.NeedRetry,
          Err |-> uploadResult.Err, ResultMessage |-> uploadResult.ResultMessage]

\* Run(): is the local archive deleted after the upload.
DeletesArchiveAnyVerdict(result, o) == o.DeleteAfterUpload

DeletesArchive(result, o) == result.Succeed /\ o.DeleteAfterUpload

\* Run(), second half: the upload, whose verdict becomes the result.
RunUpload(u, uploadResult) ==
    /\ u \in UnitIdx
    /\ upc[u] = "upload"
    /\ uploads' = [uploads EXCEPT ![u] = @ + 1]
    /\ LET result == ResultAfterUpload(runResult[u], uploadResult) IN
          /\ runResult' = [runResult EXCEPT ![u] = result]
          /\ upc' = [upc EXCEPT ![u] = IF DeletesArchive(result, opt) THEN "remove"
                                       ELSE "post"]
    /\ UNCHANGED <<dirs, opt, units, retry, compressResult, archive, stat, statRuns,
                   rmErr>>
    /\ UNCHANGED notUnitVars

\* os.Remove(path): fails when there is no such file, or when the file system
\* refuses (fsOk = FALSE).
RemoveFails(fs, path, fsOk) == ~fs[path] \/ ~fsOk

RemoveFile(fs, path, fsOk) ==
    IF RemoveFails(fs, path, fsOk) THEN fs ELSE [fs EXCEPT ![path] = FALSE]

\* Run(): os.Remove of the archive; an error is only logged.
RunRemove(u, fsOk) ==
    /\ u \in UnitIdx
    /\ upc[u] = "remove"
    /\ archive' = RemoveFile(archive, units[u].TargetZipPath, fsOk)
    /\ rmErr' = RemoveFails(archive, units[u].TargetZipPath, fsOk)
    /\ upc' = [upc EXCEPT ![u] = "post"]
    /\ UNCHANGED <<dirs, opt, units, retry, compressResult, runResult, stat, statRuns,
                   uploads>>
    /\ UNCHANGED notUnitVars

\* ------------------------------------------------- the unit's executor hooks
\* OnSuccess: nothing but the executor's bookkeeping.
OnSuccess(u) ==
    /\ u \in UnitIdx
    /\ upc[u] = "post"
    /\ ExecutorVerdict(runResult[u], retry[u], opt.MaxRetry) = "success"
    /\ upc' = [upc EXCEPT ![u] = "success"]
    /\ UNCHANGED <<dirs, opt, units, retry, compressResult, runResult, archive, stat,
                   statRuns, uploads, rmErr>>
    /\ UNCHANGED notUnitVars

\* OnRetry: a message; the executor counts the retry and queues the unit again.
OnRetry(u) ==
    /\ u \in UnitIdx
    /\ upc[u] = "post"
    /\ ExecutorVerdict(runResult[u], retry[u], opt.MaxRetry) = "retry"
    /\ retry' = [retry EXCEPT ![u] = @ + 1]
    /\ upc' = [upc EXCEPT ![u] = "queued"]
    /\ UNCHANGED <<dirs, opt, units, compressResult, runResult, archive, stat,
                   statRuns, uploads, rmErr>>
    /\ UNCHANGED notUnitVars

\* OnFailed: does the hook go on to its cleanup of the archive.
OnFailedCleans(lastRunResult) == lastRunResult.Err # "nil"

\* OnFailed: with no error in the last result only a message is printed;
\* otherwise the archive, if os.Stat finds it, is removed, the error of
\* os.Remove being dropped.
OnFailed(u, fsOk) ==
    /\ u \in UnitIdx
    /\ upc[u] = "post"
    /\ ExecutorVerdict(runResult[u], retry[u], opt.MaxRetry) = "failed"
    /\ IF OnFailedCleans(runResult[u]) /\ archive[units[u].TargetZipPath]
       THEN /\ archive' = RemoveFile(archive, units[u].TargetZipPath, fsOk)
            /\ rmErr' = RemoveFails(archive, units[u].TargetZipPath, fsOk)
       ELSE /\ rmErr' = FALSE
            /\ UNCHANGED archive
    /\ upc' = [upc EXCEPT ![u] = "failed"]
    /\ UNCHANGED <<dirs, opt, units, retry, compressResult, runResult, stat, statRuns,
                   uploads>>
    /\ UNCHANGED notUnitVars

\* ------------------------------------- specification: compress-and-upload
NextUnit ==
    \/ \E u \in AllUnits : ExecutorStart(u)
    \/ \E u \in AllUnits, outcome \in CompressOutcomes : RunCompress(u, outcome)
    \/ \E u \in AllUnits : RunAddTotalSize(u)
    \/ \E u \in AllUnits : RunAddCompressedSize(u)
    \/ \E u \in AllUnits : RunAddFileCount(u)
    \/ \E u \in AllUnits, uploadResult \in UploadVerdicts : RunUpload(u, uploadResult)
    \/ \E u \in AllUnits, fsOk \in BOOLEAN : RunRemove(u, fsOk)
    \/ \E u \in AllUnits : OnSuccess(u)
    \/ \E u \in AllUnits : OnRetry(u)
    \/ \E u \in AllUnits, fsOk \in BOOLEAN : OnFailed(u, fsOk)

SpecUnit == InitUnit /\ [][NextUnit]_vars

\* The next call of Execute() for the same directory.  CompressQueue.Execute(),
\* run once more, calls item.Task.Execute() on the task object the item has
\* held since AddTask (fresh = FALSE); CompressUploadTaskUnit.Run(), retried,
\* builds a new task with NewCompressTask first (fresh = TRUE).
ExecuteAgain(fresh) ==
    /\ tpc = "done"
    /\ attempt < MaxAttempts
    /\ attempt' = attempt + 1
    /\ tpc' = "ready"
    /\ ct' = IF fresh THEN NewTask ELSE ct
    /\ sys' = NoCall
    /\ UNCHANGED <<tree, sourceBase, includeHidden, todo, walked, ctResult, zipFile>>
    /\ UNCHANGED notTaskVars

\* --------------------------------------- specification: one CompressTask
\* NewCompressTask for some source directory and options; a file may already
\* lie at the target path.
InitTask ==
    /\ QueueInit
    /\ UnitIdle
    /\ tree \in Trees(MaxNodes)
    /\ sourceBase \in Names
    /\ includeHidden \in BOOLEAN
    /\ tpc = "ready"
    /\ ct = NewTask
    /\ todo = <<>>
    /\ walked = NoWalk
    /\ ctResult = NewResult
    /\ zipFile \in {NoFile, OldFile}
    /\ sys = NoCall
    /\ attempt = 1

NextTask ==
    \/ \E kind \in {"dir", "file", "missing", "noperm"} : ExecuteStat(kind)
    \/ \E walkOk \in BOOLEAN : ExecuteCount(walkOk)
    \/ \E statfsOk \in BOOLEAN, freeSpace \in 0..MaxFree : ExecuteSpace(statfsOk, freeSpace)
    \/ \E outcome \in {"ok", "perm", "fail"} : ExecuteCreate(outcome)
    \/ \E fault \in {"none", "perm", "io"} : WalkStep(fault)
    \/ ExecuteFinish
    \/ \E fresh \in BOOLEAN : ExecuteAgain(fresh)

SpecTask == InitTask /\ [][NextTask]_vars

\* ------------------------------------------ specification: compress-only
Init == QueueInit /\ UnitIdle /\ TaskIdle

Next ==
    \/ AddTask(ZipPathOf(Len(items) + 1))
    \/ \E t \in Threads : ExecuteEnter(t)
    \/ \E t \in Threads : ExecuteReject(t)
    \/ \E t \in Threads : LoopTop(t)
    \/ \E t \in Threads : PauseCheck(t)
    \/ \E t \in Threads : SleepPoll(t)
    \/ \E t \in Threads : TaskStart(t)
    \/ \E t \in Threads : TaskProgress(t)
    \/ \E t \in Threads, ok \in BOOLEAN : TaskFinish(t, ok)
    \/ \E t \in Threads, stop \in BOOLEAN : TaskComplete(t, stop)
    \/ \E t \in Threads : QueueComplete(t)
    \/ \E t \in Threads : ExecuteReturn(t)
    \/ Stop
    \/ Pause
    \/ Resume

Spec == Init /\ [][Next]_vars

\* ------------------------- specification: a filled queue, fairly scheduled
\* The queue after n AddTask calls, nothing run yet.
FilledQueue(n) == [k \in 1..n |-> NewItem(ZipPathOf(k))]

InitFair ==
    /\ \E n \in 0..MaxFairItems : items = FilledQueue(n)
    /\ zips = NoZips
    /\ status = QueueStatusIdle
    /\ pc = [t \in Threads |-> "idle"]
    /\ idx = [t \in Threads |-> 0]
    /\ rejected = FALSE
    /\ epoch = "new"
    /\ ctl = NoCtl
    /\ pauseWait = "no"
    /\ processed = 0
    /\ startCnt = ZeroCnt
    /\ completeCnt = ZeroCnt
    /\ queueCnt = 0
    /\ lastHook = NoHook
    /\ UnitIdle
    /\ TaskIdle

FairThreads == 1..NumFairThreads

\* One step of the goroutine that runs Execute(): once inside the loop it is
\* always able to take its next step, and the Go scheduler lets it.
LoopStep(t) ==
    \/ LoopTop(t)
    \/ PauseCheck(t)
    \/ SleepPoll(t)
    \/ TaskStart(t)
    \/ TaskProgress(t)
    \/ \E ok \in BOOLEAN : TaskFinish(t, ok)
    \/ \E stop \in BOOLEAN : TaskComplete(t, stop)
    \/ QueueComplete(t)
    \/ ExecuteReturn(t)

NextFair ==
    \/ \E t \in FairThreads : ExecuteEnter(t)
    \/ \E t \in FairThreads : ExecuteReject(t)
    \/ \E t \in FairThreads : LoopTop(t)
    \/ \E t \in FairThreads : PauseCheck(t)
    \/ \E t \in FairThreads : SleepPoll(t)
    \/ \E t \in FairThreads : TaskStart(t)
    \/ \E t \in FairThreads : TaskProgress(t)
    \/ \E t \in FairThreads, ok \in BOOLEAN : TaskFinish(t, ok)
    \/ \E t \in FairThreads, stop \in BOOLEAN : TaskComplete(t, stop)
    \/ \E t \in FairThreads : QueueComplete(t)
    \/ \E t \in FairThreads : ExecuteReturn(t)
    \/ Stop
    \/ Pause
    \/ Resume

SpecFair == InitFair /\ [][NextFair]_vars /\ \A t \in FairThreads : WF_vars(LoopStep(t))

\* ------------------- specification: a queue with its archives on disk
InitCleanup ==
    /\ \E n \in 0..MaxCleanItems : items = FilledQueue(n)
    /\ zips = NoZips
    /\ status = QueueStatusIdle
    /\ pc = [t \in Threads |-> "idle"]
    /\ idx = [t \in Threads |-> 0]
    /\ rejected = FALSE
    /\ epoch = "new"
    /\ ctl = NoCtl
    /\ pauseWait = "no"
    /\ processed = 0
    /\ startCnt = ZeroCnt
    /\ completeCnt = ZeroCnt
    /\ queueCnt = 0
    /\ lastHook = NoHook
    /\ UnitIdle
    /\ TaskIdle

NextCleanup ==
    \/ \E t \in FairThreads : ExecuteEnter(t)
    \/ \E t \in FairThreads : LoopTop(t)
    \/ \E t \in FairThreads : PauseCheck(t)
    \/ \E t \in FairThreads : TaskStart(t)
    \/ \E t \in FairThreads, outcome \in {"ok", "early", "late"} : TaskFinishOnDisk(t, outcome)
    \/ \E t \in FairThreads, stop \in BOOLEAN : TaskComplete(t, stop)
    \/ \E t \in FairThreads : QueueComplete(t)
    \/ \E t \in FairThreads : ExecuteReturn(t)
    \/ CleanupFailedTasks

SpecCleanup == InitCleanup /\ [][NextCleanup]_vars

TypeOK ==
    /\ status \in {QueueStatusIdle, QueueStatusRunning, QueueStatusPaused, QueueStatusStopped}
    /\ Len(items) <= MaxItems
    /\ \A t \in Threads : pc[t] \in {"idle", "top", "pausechk", "sleep", "start",
                                     "exec", "complete", "qcomplete", "defer"}

\* ================================================================ claims
ActiveLoops == {t \in Threads : pc[t] # "idle"}
Terminal == {"completed", "failed"}
ItemIdx == 1..Len(items)

\* C1: at most one Execute() run loop is active on a queue at any time, and
\* an Execute() call made while a run loop is active does not enter the loop
\* (it returns without running any item).
C1_SingleRunLoop ==
    /\ [](Cardinality(ActiveLoops) <= 1)
    /\ [][\A t \in Threads :
            (pc[t] = "idle" /\ ActiveLoops # {}) => pc'[t] = "idle"]_vars

\* An Execute() call was rejected while a run loop was executing an item.
C1_Witness ==
    /\ rejected
    /\ \E t \in Threads : pc[t] = "exec"

\* C2: whenever an Execute() call that entered its run loop returns, the
\* status is Idle at the moment of return, whichever way the loop exited.
C2_ReturnsToIdle ==
    [][\A t \in Threads :
         (pc[t] # "idle" /\ pc'[t] = "idle") => status' = QueueStatusIdle]_vars

\* A run that was stopped while it polled in the paused state (so it never
\* reached OnQueueComplete) has returned and left the status Idle.
C2_Witness ==
    /\ NoLoopActive
    /\ epoch # "new"
    /\ queueCnt = 0
    /\ status = QueueStatusIdle
    /\ \E i \in ItemIdx : items[i].Status \in Terminal

\* C3: the queue is restartable: whenever no run loop is active, a new
\* Execute() call passes its compare-and-swap and enters the run loop.
C3_Restartable == NoLoopActive => ExecuteCAS(status)

\* C4: every change of the status word is one of the edges Idle->Running,
\* Running->Idle, Running->Stopped, Stopped->Idle, Running->Paused,
\* Paused->Running, Paused->Stopped.
StatusEdges ==
    { <<QueueStatusIdle, QueueStatusRunning>>,
      <<QueueStatusRunning, QueueStatusIdle>>,
      <<QueueStatusRunning, QueueStatusStopped>>,
      <<QueueStatusStopped, QueueStatusIdle>>,
      <<QueueStatusRunning, QueueStatusPaused>>,
      <<QueueStatusPaused, QueueStatusRunning>>,
      <<QueueStatusPaused, QueueStatusStopped>> }

C4_StatusEdges ==
    [][status' # status => <<status, status'>> \in StatusEdges]_vars

\* C5: items run in insertion order, one at a time: an item is "running"
\* only while every item before it is "completed" or "failed", and no two
\* items are "running" at once.
C5_SerialInOrder ==
    /\ Cardinality({i \in ItemIdx : items[i].Status = "running"}) <= 1
    /\ \A i \in ItemIdx :
         items[i].Status = "running" =>
            \A j \in 1..(i - 1) : items[j].Status \in Terminal

\* The third item is running after a failed and a completed one.
C5_Witness ==
    /\ Len(items) >= 3
    /\ items[1].Status = "failed"
    /\ items[2].Status = "completed"
    /\ items[3].Status = "running"

\* C6: when the status is Stopped at the check before item k the loop exits;
\* a loop that has exited at index k has started neither item k nor a later
\* one in this run (in a first run they are "pending"); and when the
\* OnTaskComplete hook is the first to call Stop(), for item s, and no other
\* thread calls Stop() or Pause() after it, once Execute() has returned
\* exactly s items are "completed" or
\* "failed" in GetResults() and every later item is "pending" (s = 2 in a
\* 5-item queue is the scenario of the specification).
C6_StopLeavesRestPending ==
    /\ [][\A t \in Threads :
            (/\ pc[t] = "top"
             /\ idx[t] <= Len(items)
             /\ status = QueueStatusStopped
             /\ pc'[t] # pc[t]) => pc'[t] = "qcomplete"]_vars
    /\ [](\A t \in Threads :
            pc[t] \in {"qcomplete", "defer"} =>
               \A j \in idx[t]..Len(items) :
                  /\ startCnt[j] = 0
                  /\ epoch = "first" => items[j].Status = "pending")
    /\ []((/\ NoLoopActive
           /\ epoch = "first"
           /\ ctl[1] = "hook")
          => /\ \A j \in (ctl[2] + 1)..Len(items) : items[j].Status = "pending"
             /\ Cardinality({i \in DOMAIN GetResults :
                               GetResults[i].Status \in Terminal}) = ctl[2])

\* The scenario itself: 5 items, Stop() from the hook of item 2, Execute()
\* has returned and item 3 is still pending.
C6_Witness ==
    /\ NoLoopActive
    /\ epoch = "first"
    /\ Len(items) = 5
    /\ ctl = <<"hook", 2>>
    /\ items[3].Status = "pending"
    /\ items[5].Status = "pending"

\* C7: OnQueueComplete fires at most once per run, and only when every item
\* of the queue was executed in that run.
C7_QueueCompleteOnlyNatural ==
    [][queueCnt' > queueCnt =>
         /\ queueCnt' <= 1
         /\ \A i \in ItemIdx : startCnt[i] = 1]_vars

\* C8: per started item the hooks come as OnTaskStart, progress events,
\* OnTaskComplete exactly once; OnTaskComplete fires for successful and
\* failed items alike, after status and result are set and before the next
\* item starts, and never for an item that is still "pending".
C8_HookOrder ==
    /\ [](\A i \in ItemIdx :
            /\ startCnt[i] <= 1
            /\ completeCnt[i] <= startCnt[i]
            /\ completeCnt[i] >= 1 => items[i].Status \in Terminal)
    /\ [][\A i \in ItemIdx :
            /\ completeCnt'[i] > completeCnt[i] =>
                  /\ lastHook \in {<<"start", i>>, <<"progress", i>>}
                  /\ items[i].Result.nil = FALSE
                  /\ items[i].Status = (IF items[i].Result.Success
                                        THEN "completed" ELSE "failed")
            /\ (processed' > processed /\ lastHook'[2] = i) =>
                  /\ lastHook'[1] = "progress"
                  /\ lastHook \in {<<"start", i>>, <<"progress", i>>}
            /\ startCnt'[i] > startCnt[i] =>
                  /\ lastHook' = <<"start", i>>
                  /\ lastHook = NoHook \/ (lastHook[1] = "complete" /\ lastHook[2] < i)
                  /\ \A j \in ItemIdx : completeCnt[j] = startCnt[j]]_vars
    /\ [][\A t \in Threads :
            (pc[t] # "idle" /\ pc'[t] = "idle") =>
               \A j \in ItemIdx : completeCnt[j] = startCnt[j]]_vars

\* The second item reports progress after the first one failed and had its
\* OnTaskComplete call.
C8_Witness ==
    /\ Len(items) >= 2
    /\ items[1].Status = "failed"
    /\ completeCnt[1] = 1
    /\ startCnt[2] = 1
    /\ lastHook = <<"progress", 2>>

\* C9: an item's status only moves forward along pending -> running ->
\* {completed, failed}; no item leaves "completed" or "failed".
ForwardStatus ==
    { <<"pending", "running">>, <<"running", "completed">>, <<"running", "failed">> }

C9_ItemStatusForward ==
    [][\A i \in ItemIdx :
         items'[i].Status # items[i].Status =>
            <<items[i].Status, items'[i].Status>> \in ForwardStatus]_vars

\* C10: after an Execute() run GetCompletedZipPaths() is the sequence of the
\* target paths of the "completed" items (those whose result is successful),
\* one entry per such item, in insertion order; failed and pending items
\* contribute nothing.
CompletedIdx == {i \in ItemIdx : items[i].Status = "completed"}

C10_CompletedZipPaths ==
    NoLoopActive =>
       /\ \A i \in ItemIdx :
             items[i].Status = "completed" <=>
                (items[i].Result.nil = FALSE /\ items[i].Result.Success)
       /\ Len(GetCompletedZipPaths) = Cardinality(CompletedIdx)
       /\ \A i \in CompletedIdx :
             GetCompletedZipPaths[Cardinality({j \in CompletedIdx : j <= i})]
                = items[i].Task.TargetZipPath

\* A failed item, two successful ones and a pending one: the two successful
\* paths come back in insertion order.
C10_Witness ==
    /\ NoLoopActive
    /\ epoch # "new"
    /\ Len(items) >= 4
    /\ items[1].Status = "failed"
    /\ items[4].Status = "pending"
    /\ GetCompletedZipPaths = <<ZipPathOf(2), ZipPathOf(3)>>

\* C11: a failing item aborts only itself: when a run returns and Stop() was
\* not called during it, every item of the queue was started in that run and
\* is "completed" or "failed".
C11_FailureAbortsOnlyItself ==
    [][\A t \in Threads :
         (pc[t] = "defer" /\ pc'[t] = "idle" /\ ctl = NoCtl) =>
            \A i \in ItemIdx :
               /\ startCnt[i] = 1
               /\ items'[i].Status \in Terminal]_vars

\* A run without Stop() has returned; the first and third item
\* failed, the second and fourth were still executed.
C11_Witness ==
    /\ NoLoopActive
    /\ epoch = "first"
    /\ ctl = NoCtl
    /\ Len(items) = 4
    /\ items[1].Status = "failed"
    /\ items[2].Status = "completed"
    /\ items[3].Status = "failed"
    /\ items[4].Status = "completed"

\* C20: once Stop() has been called while the run loop was waiting in the
\* paused state, and no Pause()/Resume() has followed, no item is set to
\* "running".
C20_StopWhilePausedStartsNothing ==
    [][pauseWait = "stopped" =>
         \A i \in ItemIdx :
            items'[i].Status = "running" => items[i].Status = "running"]_vars

\* ------------------------------------------------ compress-and-upload claims
ExecutorFinished ==
    units # <<>> /\ \A u \in UnitIdx : upc[u] \in {"success", "failed"}

UnitPath(u) == units[u].TargetZipPath

RECURSIVE SumTo(_, _)
SumTo(f, n) == IF n = 0 THEN 0 ELSE f[n] + SumTo(f, n - 1)

\* C12: when compression fails inside Run(), the result returned is
\* {Succeed false, NeedRetry false, Err = the compression error, a message},
\* that step and every other step of a unit whose compression has failed
\* leave the upload count and the statistic alone; the upload engine is only
\* called from a unit whose current compression succeeded, and the statistic
\* only changes in such a unit.
C12_CompressFailureEndsRun ==
    [][\A u \in UnitIdx :
         /\ (upc[u] = "compress" /\ ~compressResult'[u].Success) =>
               \/ upc'[u] = "compress"
               \/ /\ upc'[u] = "post"
                  /\ runResult'[u].Succeed = FALSE
                  /\ runResult'[u].NeedRetry = FALSE
                  /\ runResult'[u].Err = compressResult'[u].Error
                  /\ runResult'[u].Err # "nil"
                  /\ runResult'[u].ResultMessage # ""
                  /\ uploads' = uploads
                  /\ stat' = stat
         /\ uploads'[u] # uploads[u] => upc[u] = "upload" /\ compressResult[u].Success
         /\ stat' # stat =>
               \E v \in UnitIdx : upc[v] \in {"add1", "add2", "add3"}
                                  /\ compressResult[v].Success]_vars

C12_Witness ==
    \E u \in UnitIdx :
       /\ upc[u] = "post"
       /\ retry[u] = 1
       /\ compressResult[u].Error = "compress"
       /\ runResult[u].Err = "compress"
       /\ uploads[u] = 1
       /\ statRuns[u] = 1

\* C13: when the executor has finished, each counter of the statistic is the
\* sum, over the units whose compression succeeded at least once, of that
\* unit's TotalSize / CompressedSize / TotalFiles.
C13_CountedOncePerUnit ==
    ExecutorFinished =>
       LET once(f(_)) == SumTo([u \in UnitIdx |->
                                  IF statRuns[u] >= 1 THEN f(units[u].SourcePath) ELSE 0],
                               Len(units))
       IN  /\ stat.totalSize = once(TotalSizeOf)
           /\ stat.compressedSize = once(CompressedSizeOf)
           /\ stat.fileCount = once(TotalFilesOf)

\* C14: when OnFailed returns, no file exists at the unit's TargetZipPath
\* (unless the os.Remove it attempted failed).
C14_OnFailedLeavesNoArchive ==
    [][\A u \in UnitIdx :
         (upc[u] = "post" /\ upc'[u] = "failed") =>
            (~archive'[UnitPath(u)] \/ rmErr')]_vars

\* C15: Run() goes on to delete the archive exactly when the upload verdict is
\* Succeed and DeleteAfterUpload is set; the deletion, failed or not, leaves the
\* result as the upload made it; an upload step that is not followed by the
\* deletion leaves every archive in place.
C15_DeleteIffSucceededAndRequested ==
    [][\A u \in UnitIdx :
         /\ (upc[u] = "upload" /\ upc'[u] # "upload") =>
               /\ upc'[u] = "remove" <=> (runResult'[u].Succeed /\ opt.DeleteAfterUpload)
               /\ archive' = archive
         /\ (upc[u] = "remove" /\ upc'[u] # "remove") =>
               /\ upc'[u] = "post"
               /\ runResult'[u] = runResult[u]
               /\ runResult'[u].Succeed
               /\ rmErr' => archive' = archive
               /\ ~rmErr' => ~archive'[UnitPath(u)]]_vars

C15_Witness ==
    \E u \in UnitIdx :
       /\ upc[u] = "success"
       /\ opt.DeleteAfterUpload
       /\ rmErr
       /\ archive[UnitPath(u)]
       /\ runResult[u].Succeed
       /\ runResult[u].Err = "nil"

\* C16: no two units that are inside Run() at the same time have the same
\* TargetZipPath.
C16_ExclusiveArchive ==
    \A u \in UnitIdx, v \in UnitIdx :
       (u # v /\ InRun(u) /\ InRun(v)) => UnitPath(u) # UnitPath(v)

\* C17: at every moment each counter is its initial value (zero) plus the sum of
\* the amounts whose Add* call has returned, however the calls of the workers
\* interleave.
AddsReturned(u, after) == statRuns[u] + (IF upc[u] \in after THEN 1 ELSE 0)

C17_CountersAdditive ==
    LET sum(f(_), after) ==
            SumTo([u \in UnitIdx |-> AddsReturned(u, after) * f(units[u].SourcePath)],
                  Len(units))
    IN  /\ stat.totalSize = sum(TotalSizeOf, {"add2", "add3"})
        /\ stat.compressedSize = sum(CompressedSizeOf, {"add3"})
        /\ stat.fileCount = sum(TotalFilesOf, {})

C17_Witness ==
    /\ Len(units) = 2
    /\ upc[1] = "add3"
    /\ upc[2] = "add2"
    /\ stat.totalSize = TotalSizeOf(units[1].SourcePath) + TotalSizeOf(units[2].SourcePath)
    /\ stat.compressedSize = CompressedSizeOf(units[1].SourcePath)

\* ------------------------------------------------------ CompressTask claims
\* The regular files of the tree that count: all of them, or with hidden
\* entries excluded those with no hidden segment below the source directory.
Eligible(node) ==
    includeHidden \/ \A i \in 1..Len(node.path) : ~IsHidden(node.path[i])

EligibleFiles == {n \in tree : ~n.dir /\ Eligible(n)}

RECURSIVE SizeSum(_)
SizeSum(nodes) ==
    IF nodes = {} THEN 0
    ELSE LET n == CHOOSE n \in nodes : TRUE IN FileSize(n) + SizeSum(nodes \ {n})

\* C18: no step of the pre-flight (Stat, pre-scan, free-space check) changes
\* the file at the target path; a missing source, a source that is no
\* directory, a tree without eligible files and a source larger than the free
\* space each end Execute() with Success = false and their error; a failed
\* free-space query lets Execute() go on to create the archive.
C18_PreflightWritesNothing ==
    [][/\ tpc \in {"ready", "count", "space"} => zipFile' = zipFile
       /\ (tpc = "ready" /\ tpc' # "ready") =>
             /\ sys'[2] = "missing" =>
                   tpc' = "done" /\ ~ctResult'.Success
                   /\ ctResult'.Error = "ErrSourceNotExist"
             /\ sys'[2] = "file" =>
                   tpc' = "done" /\ ~ctResult'.Success
                   /\ ctResult'.Error = "ErrSourceNotDirectory"
       /\ (tpc = "count" /\ tpc' # "count" /\ EligibleFiles = {}) =>
             tpc' = "done" /\ ~ctResult'.Success /\ ctResult'.Error # "nil"
       /\ (tpc = "space" /\ tpc' # "space") =>
             /\ (sys'[2] /\ SizeSum(EligibleFiles) > sys'[3]) =>
                   tpc' = "done" /\ ~ctResult'.Success
                   /\ ctResult'.Error = "ErrDiskSpaceInsufficient"
             /\ ~sys'[2] => tpc' = "create" /\ ctResult'.Error = "nil"]_vars

C18_Witness ==
    /\ tpc = "done"
    /\ sys = <<"statfs", TRUE, 1>>
    /\ SizeSum(EligibleFiles) = 2
    /\ ctResult.Error = "ErrDiskSpaceInsufficient"
    /\ zipFile = OldFile

\* C19: after a successful Execute() the result has TotalFiles = N and
\* TotalSize = S for the N eligible files of S bytes, the archive's file
\* entries are exactly the eligible files named <baseName>/<relativePath>, its
\* marker entries are one for every empty subdirectory and none for a
\* directory that has an eligible file below it, and with hidden entries
\* excluded no entry has a hidden segment after the root segment.
C19_ArchiveHoldsEligibleFiles ==
    (tpc = "done" /\ ctResult.Success) =>
       LET files == {e.name : e \in {x \in zipFile.entries : ~x.marker}}
           marks == {e.name : e \in {x \in zipFile.entries : x.marker}}
           below(p) == {n \in EligibleFiles : IsPrefix(p, n.path)}
           empty == {n \in tree : n.dir /\ Eligible(n)
                                  /\ \A m \in tree : IsPrefix(n.path, m.path) => m = n}
       IN  /\ ctResult.TotalFiles = Cardinality(EligibleFiles)
           /\ ctResult.TotalSize = SizeSum(EligibleFiles)
           /\ files = {<<sourceBase>> \o n.path : n \in EligibleFiles}
           /\ {<<sourceBase>> \o n.path : n \in empty} \subseteq marks
           /\ \A n \in tree \cup {RootNode} :
                 (<<sourceBase>> \o n.path) \in marks => below(n.path) = {}
           /\ ~includeHidden =>
                 \A e \in zipFile.entries :
                    \A i \in 2..Len(e.name) : ~IsHidden(e.name[i])

\* C21: once Stop() has been called in a run and the loop has since been at
\* the top of an iteration (the next item boundary), no item is started any
\* more in that run, whatever Pause() and Resume() calls follow.
C21_StopNeverLost ==
    [][ctl = StopSeenCtl =>
          \A i \in ItemIdx :
             items'[i].Status = "running" => items[i].Status = "running"]_vars

\* C22: every successful Execute() on the unchanged tree, the first one as
\* well as a later one on a new or on the same task object, returns
\* TotalFiles = N and TotalSize = S, the number and total size of the eligible
\* files.
C22_CountersFromOnePreScan ==
    (tpc = "done" /\ ctResult.Success) =>
       /\ ctResult.TotalFiles = Cardinality(EligibleFiles)
       /\ ctResult.TotalSize = SizeSum(EligibleFiles)

\* C23: a loop that polls while the status is Paused stays in its polling loop
\* and starts no item, and the status leaves Paused only by Resume() or
\* Stop(); and, the loop thread being scheduled fairly, in a behaviour in
\* which Stop() is never called and the status is eventually never Paused
\* again, every Execute() that entered the loop returns, with every item
\* started once in that run and "completed" or "failed".
C23_PauseSuspendsResumeContinues ==
    /\ [][\A t \in Threads :
            (pc[t] \in {"pausechk", "sleep"} /\ status = QueueStatusPaused) =>
               /\ pc'[t] \in {"pausechk", "sleep"}
               /\ items' = items
               /\ status' # QueueStatusPaused => (Resume \/ Stop)]_vars
    /\ (<>[](status # QueueStatusPaused) /\ [](ctl = NoCtl)) =>
          \A t \in Threads :
             [](pc[t] # "idle" =>
                  <>(/\ pc[t] = "idle"
                     /\ \A i \in ItemIdx : startCnt[i] = 1 /\ items[i].Status \in Terminal))

\* The loop has waited while Paused, was resumed, and goes on with item 2.
C23_Witness ==
    \E t \in Threads :
       /\ pc[t] = "start"
       /\ idx[t] = 2
       /\ pauseWait = "waiting"
       /\ status = QueueStatusRunning
       /\ ctl = NoCtl
       /\ items[1].Status \in Terminal

\* What io.Copy wrote into the file entries of an archive, in bytes.
RECURSIVE BytesIn(_)
BytesIn(entries) ==
    IF entries = {} THEN 0
    ELSE LET e == CHOOSE e \in entries : TRUE IN e.bytes + BytesIn(entries \ {e})

\* The archive walk is about to visit a regular file it keeps.
AtKeptFile ==
    /\ tpc = "walk"
    /\ todo # <<>>
    /\ ~Head(todo).dir
    /\ ~LeftOut(Head(todo), sourceBase, includeHidden)

C25_CleanupRemovesOnlyFailedLeftovers ==
    [][CleanupFailedTasks =>
          \A i \in ItemIdx :
             LET path == items[i].Task.TargetZipPath IN
                /\ LeftByFailure(items[i]) => zips'[path] = 0
                /\ (KeepsPath(items[i]) /\ zips[path] = i) => zips'[path] = i
                /\ items[i].Result.nil => zips'[path] = zips[path]]_vars

====
